---- MODULE Spec2Model ----
(***************************************************************************)
(* Model of DkCardanoWalletExtension (src/src/wallet-externsion.ts):       *)
(* verifySignedMessage, verifyPayload and verifyAddress, together with the *)
(* behaviour of the library calls they make (Buffer, the address codec,    *)
(* the COSE decoders and the Ed25519 primitive).  Hashes and keys are one  *)
(* byte wide instead of 28 and 32; everything else keeps its byte layout.  *)
(***************************************************************************)
EXTENDS Integers, Sequences, FiniteSets, TLC

\* ------------------------------------------------------------------ bounds
MaxNetwork == 1
NumKeys == 3

Networks == 0..MaxNetwork
Keys == 1..NumKeys

\* ------------------------------------------------------- Buffer and hex
HexDigits == <<"0","1","2","3","4","5","6","7","8","9","a","b","c","d","e","f">>

HexChars == {HexDigits[i] : i \in 1..16}

HexVal(c) == (CHOOSE i \in 1..16 : HexDigits[i] = c) - 1

RECURSIVE toHex(_)
toHex(bytes) ==
  IF bytes = <<>> THEN <<>>
  ELSE <<HexDigits[(Head(bytes) \div 16) + 1], HexDigits[(Head(bytes) % 16) + 1]>>
       \o toHex(Tail(bytes))

\* Buffer.from(s, 'hex'): decodes pairs of digits and stops, without raising,
\* at the first pair that is not two hex digits; a trailing single digit is
\* dropped.
RECURSIVE Buffer_from_hex(_)
Buffer_from_hex(s) ==
  IF Len(s) < 2 THEN <<>>
  ELSE IF s[1] \in HexChars /\ s[2] \in HexChars
       THEN <<HexVal(s[1]) * 16 + HexVal(s[2])>> \o Buffer_from_hex(SubSeq(s, 3, Len(s)))
       ELSE <<>>

\* Buffer_compare stopping at the end of the shorter buffer.
RECURSIVE Buffer_compare_commonPrefix(_, _)
Buffer_compare_commonPrefix(a, b) ==
  IF a = <<>> \/ b = <<>> THEN 0
  ELSE IF Head(a) < Head(b) THEN -1
  ELSE IF Head(a) > Head(b) THEN 1
  ELSE Buffer_compare_commonPrefix(Tail(a), Tail(b))

\* buf.compare(target): -1, 0 or 1 by lexicographic byte order, the shorter
\* buffer first when one is a prefix of the other.
RECURSIVE Buffer_compare(_, _)
Buffer_compare(a, b) ==
  IF a = <<>> /\ b = <<>> THEN 0
  ELSE IF a = <<>> THEN -1
  ELSE IF b = <<>> THEN 1
  ELSE IF Head(a) < Head(b) THEN -1
  ELSE IF Head(a) > Head(b) THEN 1
  ELSE Buffer_compare(Tail(a), Tail(b))

\* --------------------------------------------------------- address codec
NullCred == [type |-> "none", hash |-> 0]

NullAddr == [kind |-> "none", network |-> 0, payment |-> NullCred, stake |-> NullCred]

KeyCred(h) == [type |-> "key", hash |-> h]

ScriptCred(h) == [type |-> "script", hash |-> h]

ScriptBit(c) == IF c.type = "script" THEN 1 ELSE 0

\* Shelley header byte: type nibble, network nibble.
Address_to_bytes(a) ==
  CASE a.kind = "base" ->
         <<(ScriptBit(a.payment) + 2 * ScriptBit(a.stake)) * 16 + a.network,
           a.payment.hash, a.stake.hash>>
    [] a.kind = "pointer" ->
         <<(4 + ScriptBit(a.payment)) * 16 + a.network, a.payment.hash, 1>>
    [] a.kind = "enterprise" ->
         <<(6 + ScriptBit(a.payment)) * 16 + a.network, a.payment.hash>>
    [] a.kind = "reward" ->
         <<(14 + ScriptBit(a.stake)) * 16 + a.network, a.stake.hash>>

CredOf(bit, h) == IF bit = 1 THEN ScriptCred(h) ELSE KeyCred(h)

\* S.Address.from_bytes: raises on an empty buffer, an unknown header type
\* or a length that does not fit the header type.
Address_from_bytes(b) ==
  IF Len(b) = 0 THEN [ok |-> FALSE, val |-> NullAddr]
  ELSE LET t == b[1] \div 16
           n == b[1] % 16
       IN  CASE t \in 0..3 /\ Len(b) = 3 ->
                  [ok |-> TRUE,
                   val |-> [kind |-> "base", network |-> n,
                            payment |-> CredOf(t % 2, b[2]),
                            stake |-> CredOf(t \div 2, b[3])]]
             [] t \in 4..5 /\ Len(b) = 3 /\ b[3] = 1 ->
                  [ok |-> TRUE,
                   val |-> [kind |-> "pointer", network |-> n,
                            payment |-> CredOf(t % 2, b[2]), stake |-> NullCred]]
             [] t \in 6..7 /\ Len(b) = 2 ->
                  [ok |-> TRUE,
                   val |-> [kind |-> "enterprise", network |-> n,
                            payment |-> CredOf(t % 2, b[2]), stake |-> NullCred]]
             [] t \in 14..15 /\ Len(b) = 2 ->
                  [ok |-> TRUE,
                   val |-> [kind |-> "reward", network |-> n,
                            payment |-> NullCred, stake |-> CredOf(t % 2, b[2])]]
             [] OTHER -> [ok |-> FALSE, val |-> NullAddr]

\* address.to_bech32(): human-readable prefix chosen by kind and network,
\* followed by the encoding of the address bytes.
to_bech32(a) ==
  <<IF a.kind = "reward" THEN "stake" ELSE "addr",
    IF a.network = 0 THEN "_test" ELSE "",
    Address_to_bytes(a)>>

network_id(a) == a.network

\* S.BaseAddress.new(network, payment, stake).to_address(): the network is
\* kept in the low nibble of the header.
BaseAddress_new(network, payment, stake) ==
  [kind |-> "base", network |-> network % 16, payment |-> payment, stake |-> stake]

\* S.RewardAddress.new(network, stake).to_address()
RewardAddress_new(network, stake) ==
  [kind |-> "reward", network |-> network % 16, payment |-> NullCred, stake |-> stake]

\* -------------------------------------------------------------- keys
\* publicKey.hash(): a digest of the key bytes; distinct keys may collide.
PublicKey_hash(pk) == 10 + (pk[1] % 2)

\* S.PublicKey.from_bytes: raises unless the buffer has the key length.
PublicKey_from_bytes(b) ==
  IF Len(b) = 1 THEN [ok |-> TRUE, val |-> b] ELSE [ok |-> FALSE, val |-> <<0>>]

\* ------------------------------------------------------- verifyAddress
\* S.BaseAddress.from_address: undefined unless the address is a Base one.
BaseAddress_from_address(a) ==
  IF a.kind = "base" THEN [ok |-> TRUE, val |-> a] ELSE [ok |-> FALSE, val |-> NullAddr]

\* credential.to_keyhash(): undefined for a script credential.
to_keyhash(c) ==
  IF c.type = "key" THEN [ok |-> TRUE, val |-> c.hash] ELSE [ok |-> FALSE, val |-> 0]

\* BasePath hashing the public key into the stake role and taking the
\* payment credential from the embedded address.
BasePath_rolesSwapped(checkAddress, addressCose, publicKeyCose) ==
  LET baseAddress == BaseAddress_from_address(addressCose)
      stakeKeyHash == PublicKey_hash(publicKeyCose)
      paymentKeyHash == to_keyhash(baseAddress.val.payment)
      reconstructedAddress ==
        BaseAddress_new(network_id(checkAddress),
                        KeyCred(paymentKeyHash.val), KeyCred(stakeKeyHash))
  IN  IF ~baseAddress.ok THEN [threw |-> TRUE, ret |-> FALSE]
      ELSE IF ~paymentKeyHash.ok THEN [threw |-> TRUE, ret |-> FALSE]
      ELSE IF to_bech32(checkAddress) # to_bech32(reconstructedAddress)
           THEN [threw |-> FALSE, ret |-> FALSE]
           ELSE [threw |-> FALSE, ret |-> TRUE]

\* BasePath accepting the public key in either credential role.
BasePath_eitherRole(checkAddress, addressCose, publicKeyCose) ==
  LET baseAddress == BaseAddress_from_address(addressCose)
      keyHash == PublicKey_hash(publicKeyCose)
      stakeKeyHash == to_keyhash(baseAddress.val.stake)
      paymentKeyHash == to_keyhash(baseAddress.val.payment)
      asPayment ==
        BaseAddress_new(network_id(checkAddress),
                        KeyCred(keyHash), KeyCred(stakeKeyHash.val))
      asStake ==
        BaseAddress_new(network_id(checkAddress),
                        KeyCred(paymentKeyHash.val), KeyCred(keyHash))
  IN  IF ~baseAddress.ok THEN [threw |-> TRUE, ret |-> FALSE]
      ELSE IF ~stakeKeyHash.ok THEN [threw |-> TRUE, ret |-> FALSE]
      ELSE IF /\ to_bech32(checkAddress) # to_bech32(asPayment)
              /\ to_bech32(checkAddress) # to_bech32(asStake)
           THEN [threw |-> FALSE, ret |-> FALSE]
           ELSE [threw |-> FALSE, ret |-> TRUE]

\* The inner try block of lines 74-91.  threw: the block raised (stake_cred()
\* of undefined, or from_keyhash(undefined)); otherwise ret is its return.
BasePath(checkAddress, addressCose, publicKeyCose) ==
  LET baseAddress == BaseAddress_from_address(addressCose)
      paymentKeyHash == PublicKey_hash(publicKeyCose)
      stakeKeyHash == to_keyhash(baseAddress.val.stake)
      reconstructedAddress ==
        BaseAddress_new(network_id(checkAddress),
                        KeyCred(paymentKeyHash), KeyCred(stakeKeyHash.val))
  IN  IF ~baseAddress.ok THEN [threw |-> TRUE, ret |-> FALSE]
      ELSE IF ~stakeKeyHash.ok THEN [threw |-> TRUE, ret |-> FALSE]
      ELSE IF to_bech32(checkAddress) # to_bech32(reconstructedAddress)
           THEN [threw |-> FALSE, ret |-> FALSE]
           ELSE [threw |-> FALSE, ret |-> TRUE]

\* RewardPath rebuilding the credential with the kind found in the claimed
\* address instead of a key-hash.
RewardPath_anyCredKind(checkAddress, publicKeyCose) ==
  LET stakeKeyHash == PublicKey_hash(publicKeyCose)
      reconstructedAddress ==
        RewardAddress_new(network_id(checkAddress),
                          [type |-> checkAddress.stake.type, hash |-> stakeKeyHash])
  IN  IF to_bech32(checkAddress) # to_bech32(reconstructedAddress)
      THEN [threw |-> FALSE, ret |-> FALSE]
      ELSE [threw |-> FALSE, ret |-> TRUE]

\* The inner try block of lines 97-111; none of its calls raises on a
\* decoded Shelley address.
RewardPath(checkAddress, publicKeyCose) ==
  LET stakeKeyHash == PublicKey_hash(publicKeyCose)
      reconstructedAddress ==
        RewardAddress_new(network_id(checkAddress), KeyCred(stakeKeyHash))
  IN  IF to_bech32(checkAddress) # to_bech32(reconstructedAddress)
      THEN [threw |-> FALSE, ret |-> FALSE]
      ELSE [threw |-> FALSE, ret |-> TRUE]

LogNotBase == "The address is not base address"

LogNotReward == "The address is not reward address"

LogCouldNot == "Could not verify address"

\* verifyAddressTry without the inner catch around the Base attempt.
verifyAddressTry_baseThrowEscapes(address, addressCose, publicKeyCose) ==
  LET decoded == Address_from_bytes(Buffer_from_hex(address))
      checkAddress == decoded.val
      base == BasePath(checkAddress, addressCose, publicKeyCose)
  IN  IF ~decoded.ok
      THEN [threw |-> TRUE, returned |-> FALSE, ret |-> FALSE, log |-> <<>>]
      ELSE IF to_bech32(addressCose) # to_bech32(checkAddress)
      THEN [threw |-> FALSE, returned |-> TRUE, ret |-> FALSE, log |-> <<>>]
      ELSE IF ~base.threw
      THEN [threw |-> FALSE, returned |-> TRUE, ret |-> base.ret, log |-> <<>>]
      ELSE [threw |-> TRUE, returned |-> FALSE, ret |-> FALSE, log |-> <<>>]

\* verifyAddressTry without the comparison of the claimed and the embedded
\* address.
verifyAddressTry_noIdentityCheck(address, addressCose, publicKeyCose) ==
  LET decoded == Address_from_bytes(Buffer_from_hex(address))
      checkAddress == decoded.val
      base == BasePath(checkAddress, addressCose, publicKeyCose)
      reward == RewardPath(checkAddress, publicKeyCose)
  IN  IF ~decoded.ok
      THEN [threw |-> TRUE, returned |-> FALSE, ret |-> FALSE, log |-> <<>>]
      ELSE IF ~base.threw
      THEN [threw |-> FALSE, returned |-> TRUE, ret |-> base.ret, log |-> <<>>]
      ELSE IF ~reward.threw
      THEN [threw |-> FALSE, returned |-> TRUE, ret |-> reward.ret,
            log |-> <<LogNotBase>>]
      ELSE [threw |-> FALSE, returned |-> FALSE, ret |-> FALSE,
            log |-> <<LogNotBase, LogNotReward>>]

\* The outer try block of lines 66-115.  threw: an exception left the block
\* (only the decoding of the claimed address is outside the inner blocks);
\* returned: a return statement was reached, with value ret; otherwise
\* control reaches the end of the block.
verifyAddressTry(address, addressCose, publicKeyCose) ==
  LET decoded == Address_from_bytes(Buffer_from_hex(address))
      checkAddress == decoded.val
      base == BasePath(checkAddress, addressCose, publicKeyCose)
      reward == RewardPath(checkAddress, publicKeyCose)
  IN  IF ~decoded.ok
      THEN [threw |-> TRUE, returned |-> FALSE, ret |-> FALSE, log |-> <<>>]
      ELSE IF to_bech32(addressCose) # to_bech32(checkAddress)
      THEN [threw |-> FALSE, returned |-> TRUE, ret |-> FALSE, log |-> <<>>]
      ELSE IF ~base.threw
      THEN [threw |-> FALSE, returned |-> TRUE, ret |-> base.ret, log |-> <<>>]
      ELSE IF ~reward.threw
      THEN [threw |-> FALSE, returned |-> TRUE, ret |-> reward.ret,
            log |-> <<LogNotBase>>]
      ELSE [threw |-> FALSE, returned |-> FALSE, ret |-> FALSE,
            log |-> <<LogNotBase, LogNotReward>>]

\* verifyAddress without the outer catch.
verifyAddress_noOuterCatch(address, addressCose, publicKeyCose) ==
  LET body == verifyAddressTry(address, addressCose, publicKeyCose)
  IN  IF body.threw
      THEN [raised |-> TRUE, ret |-> FALSE, log |-> body.log]
      ELSE IF body.returned
      THEN [raised |-> FALSE, ret |-> body.ret, log |-> body.log]
      ELSE [raised |-> FALSE, ret |-> FALSE, log |-> body.log]

\* verifyAddress(address, addressCose, publicKeyCose): the outer catch logs
\* and falls to the final return false.  raised: the call ended with an
\* exception instead of a return.
verifyAddress(address, addressCose, publicKeyCose) ==
  LET body == verifyAddressTry(address, addressCose, publicKeyCose)
  IN  IF body.threw
      THEN [raised |-> FALSE, ret |-> FALSE, log |-> Append(body.log, LogCouldNot)]
      ELSE IF body.returned
      THEN [raised |-> FALSE, ret |-> body.ret, log |-> body.log]
      ELSE [raised |-> FALSE, ret |-> FALSE, log |-> body.log]

\* -------------------------------------------------------- verifyPayload
\* verifyPayload(payload, payloadCose): the three-way result of compare.
verifyPayload(payload, payloadCose) ==
  Buffer_compare(payloadCose, Buffer_from_hex(payload))

\* ---------------------------------------------------- envelope and key
RECURSIVE Sum(_)
Sum(b) == IF b = <<>> THEN 0 ELSE Head(b) + Sum(Tail(b))

Digest(data) == Sum(data) % 256

\* A signature names its signing key and carries a digest of the data.
Sign(k, data) == <<k, Digest(data)>>

\* S.Ed25519Signature.from_bytes: raises unless the buffer has the
\* signature length.
Ed25519Signature_from_bytes(b) ==
  IF Len(b) = 2 THEN [ok |-> TRUE, val |-> b] ELSE [ok |-> FALSE, val |-> <<0, 0>>]

\* publicKey.verify(data, signature)
PublicKey_verify(pk, data, sig) == sig[1] = pk[1] /\ sig[2] = Digest(data)

Absent == 255

\* One section of an encoded structure: Absent, or a length and the bytes.
Section(present, bytes) == IF present THEN <<Len(bytes)>> \o bytes ELSE <<Absent>>

NullEnv == [hasAddress |-> FALSE, addressBytes |-> <<>>,
            hasPayload |-> FALSE, payload |-> <<>>, signature |-> <<>>]

\* The bytes of a COSE_Sign1: protected headers (the "address" label),
\* payload (nullable), signature.
COSESign1_to_bytes(e) ==
  Section(e.hasAddress, e.addressBytes) \o Section(e.hasPayload, e.payload)
    \o e.signature

\* Reads one section at the front of b.
ReadSection(b) ==
  IF Len(b) = 0 THEN [ok |-> FALSE, present |-> FALSE, bytes |-> <<>>, rest |-> <<>>]
  ELSE IF b[1] = Absent
  THEN [ok |-> TRUE, present |-> FALSE, bytes |-> <<>>, rest |-> Tail(b)]
  ELSE IF Len(b) < 1 + b[1]
  THEN [ok |-> FALSE, present |-> FALSE, bytes |-> <<>>, rest |-> <<>>]
  ELSE [ok |-> TRUE, present |-> TRUE, bytes |-> SubSeq(b, 2, 1 + b[1]),
        rest |-> SubSeq(b, 2 + b[1], Len(b))]

\* MS.COSESign1.from_bytes: raises on a truncated structure.
COSESign1_from_bytes(b) ==
  LET h == ReadSection(b)
      p == ReadSection(h.rest)
  IN  IF h.ok /\ p.ok
      THEN [ok |-> TRUE,
            val |-> [hasAddress |-> h.present, addressBytes |-> h.bytes,
                     hasPayload |-> p.present, payload |-> p.bytes,
                     signature |-> p.rest]]
      ELSE [ok |-> FALSE, val |-> NullEnv]

\* coseSign1.signed_data().to_bytes(): the protected headers and the payload.
signed_data(e) ==
  Section(e.hasAddress, e.addressBytes) \o Section(e.hasPayload, e.payload)

\* The bytes of a COSE_Key holding (or not) the label -2.
COSEKey_to_bytes(present, bytes) == Section(present, bytes)

\* MS.COSEKey.from_bytes(...).header(-2): raises on a truncated structure;
\* present is false when the label is missing.
COSEKey_from_bytes(b) == ReadSection(b)

\* ------------------------------------------------------------- inputs
Hashes == {PublicKey_hash(<<k>>) : k \in Keys}

Creds == {KeyCred(h) : h \in Hashes} \cup {ScriptCred(h) : h \in Hashes}

Addrs ==
  {[kind |-> "base", network |-> n, payment |-> p, stake |-> s] :
      n \in Networks, p \in Creds, s \in Creds}
  \cup {[kind |-> "reward", network |-> n, payment |-> NullCred, stake |-> s] :
      n \in Networks, s \in Creds}
  \cup {[kind |-> "enterprise", network |-> n, payment |-> p, stake |-> NullCred] :
      n \in Networks, p \in Creds}
  \cup {[kind |-> "pointer", network |-> n, payment |-> p, stake |-> NullCred] :
      n \in Networks, p \in Creds}

\* Ways a caller's hex text can depart from toHex(bytes).
Damages == {"none", "junkAfter", "oddDigit", "junkBefore", "cutByte"}

Damage(h, d) ==
  CASE d = "none" -> h
    [] d = "junkAfter" -> h \o <<"z", "z">>
    [] d = "oddDigit" -> h \o <<"7">>
    [] d = "junkBefore" -> <<"z", "z">> \o h
    [] d = "cutByte" -> SubSeq(h, 1, Len(h) - 2)

WellFormedHex(s) == Len(s) % 2 = 0 /\ \A i \in 1..Len(s) : s[i] \in HexChars

\* The addresses, payloads and damages the whole pipeline is run on.
PipeAddrs ==
  {a \in Addrs : /\ a.network = 0
                 /\ a.kind \in {"base", "reward"}
                 /\ a.payment.type # "script" /\ a.stake.type # "script"}

Payloads == {<<1>>, <<1, 2>>, <<1, 3>>}

PipeDamages == {"none", "junkAfter", "junkBefore"}

\* --------------------------------------------------------------- state
VARIABLES address, payload, coseSign1Hex, coseKeyHex,
          pc, coseSign1, addressCose, publicKeyCose, addrResult,
          outcome, steps, sigCalls

vars == <<address, payload, coseSign1Hex, coseKeyHex,
          pc, coseSign1, addressCose, publicKeyCose, addrResult,
          outcome, steps, sigCalls>>

inputs == <<address, payload, coseSign1Hex, coseKeyHex>>

NoResult == [raised |-> FALSE, ret |-> FALSE, log |-> <<>>]

NoKey == <<0>>

\* What a wallet can put in the protected headers under "address".
AddressHeaders ==
  {[present |-> TRUE, bytes |-> Address_to_bytes(a)] : a \in PipeAddrs}
  \cup {[present |-> TRUE, bytes |-> <<>>], [present |-> FALSE, bytes |-> <<>>]}

PayloadSlots ==
  {[present |-> TRUE, bytes |-> <<1>>], [present |-> TRUE, bytes |-> <<1, 2>>],
   [present |-> FALSE, bytes |-> <<>>]}

\* The signatures a wallet can put on an envelope: one by any key, or a
\* blob of the wrong length.
Signatures(e) == {Sign(k, signed_data(e)) : k \in Keys} \cup {<<7>>}

Envelopes ==
  UNION {LET e == [hasAddress |-> h.present, addressBytes |-> h.bytes,
                   hasPayload |-> p.present, payload |-> p.bytes,
                   signature |-> <<>>]
         IN  {[e EXCEPT !.signature = s] : s \in Signatures(e)} :
         h \in AddressHeaders, p \in PayloadSlots}

\* The label -2 of the key material: a key, a blob of the wrong length, or
\* no such label.
KeySlots ==
  {[present |-> TRUE, bytes |-> <<k>>] : k \in Keys}
  \cup {[present |-> TRUE, bytes |-> <<1, 1>>], [present |-> FALSE, bytes |-> <<>>]}

\* A call of verifySignedMessage.
InitVerify ==
  /\ \E a \in PipeAddrs, d \in PipeDamages :
        address = Damage(toHex(Address_to_bytes(a)), d)
  /\ \E p \in Payloads, d \in {"none", "junkAfter"} : payload = Damage(toHex(p), d)
  /\ \E e \in Envelopes, d \in PipeDamages :
        coseSign1Hex = Damage(toHex(COSESign1_to_bytes(e)), d)
  /\ \E k \in KeySlots, d \in {"none", "junkAfter"} :
        coseKeyHex = Damage(toHex(COSEKey_to_bytes(k.present, k.bytes)), d)
  /\ pc = "decode"
  /\ coseSign1 = NullEnv
  /\ addressCose = NullAddr
  /\ publicKeyCose = NoKey
  /\ addrResult = NoResult
  /\ outcome = "none"
  /\ steps = <<>>
  /\ sigCalls = 0

\* An exception leaves verifySignedMessage.
Raise(err, step) ==
  /\ outcome' = err
  /\ pc' = "done"
  /\ steps' = Append(steps, step)

Goto(next, step) ==
  /\ pc' = next
  /\ steps' = Append(steps, step)
  /\ outcome' = outcome

\* Lines 23-24.
DecodeEnvelope ==
  /\ pc = "decode"
  /\ LET d == COSESign1_from_bytes(Buffer_from_hex(coseSign1Hex))
     IN  IF ~d.ok
         THEN Raise("Error", "decode") /\ UNCHANGED coseSign1
         ELSE Goto("payload", "decode") /\ coseSign1' = d.val
  /\ UNCHANGED <<inputs, addressCose, publicKeyCose, addrResult, sigCalls>>

\* CheckPayload going on after a mismatch instead of raising.
CheckPayload_noThrow ==
  /\ pc = "payload"
  /\ IF ~coseSign1.hasPayload
     THEN Raise("Error", "payload")
     ELSE Goto("header", "payload")
  /\ UNCHANGED <<inputs, coseSign1, addressCose, publicKeyCose, addrResult, sigCalls>>

\* Lines 26-29; Buffer.from(undefined) raises a TypeError when the envelope
\* has no payload.
CheckPayload ==
  /\ pc = "payload"
  /\ IF ~coseSign1.hasPayload
     THEN Raise("Error", "payload")
     ELSE IF verifyPayload(payload, coseSign1.payload) # 0
     THEN Raise("Payload mismatch", "payload")
     ELSE Goto("header", "payload")
  /\ UNCHANGED <<inputs, coseSign1, addressCose, publicKeyCose, addrResult, sigCalls>>

\* Lines 32-39.
ReadAddressHeader ==
  /\ pc = "header"
  /\ LET a == Address_from_bytes(coseSign1.addressBytes)
     IN  IF ~coseSign1.hasAddress \/ ~a.ok
         THEN Raise("Error", "header") /\ UNCHANGED addressCose
         ELSE Goto("key", "header") /\ addressCose' = a.val
  /\ UNCHANGED <<inputs, coseSign1, publicKeyCose, addrResult, sigCalls>>

\* Lines 43-48.
DecodeKey ==
  /\ pc = "key"
  /\ LET h == COSEKey_from_bytes(Buffer_from_hex(coseKeyHex))
         k == PublicKey_from_bytes(h.bytes)
     IN  IF ~h.ok \/ ~h.present \/ ~k.ok
         THEN Raise("Error", "key") /\ UNCHANGED publicKeyCose
         ELSE Goto("address", "key") /\ publicKeyCose' = k.val
  /\ UNCHANGED <<inputs, coseSign1, addressCose, addrResult, sigCalls>>

\* CheckAddress going on to the signature check after a false result.
CheckAddress_noThrow ==
  /\ pc = "address"
  /\ LET r == verifyAddress(address, addressCose, publicKeyCose)
     IN  /\ addrResult' = r
         /\ IF r.raised THEN Raise("Error", "address")
            ELSE Goto("signature", "address")
  /\ UNCHANGED <<inputs, coseSign1, addressCose, publicKeyCose, sigCalls>>

\* Lines 50-52.
CheckAddress ==
  /\ pc = "address"
  /\ LET r == verifyAddress(address, addressCose, publicKeyCose)
     IN  /\ addrResult' = r
         /\ IF r.raised THEN Raise("Error", "address")
            ELSE IF ~r.ret THEN Raise("Address mismatch", "address")
            ELSE Goto("signature", "address")
  /\ UNCHANGED <<inputs, coseSign1, addressCose, publicKeyCose, sigCalls>>

\* Lines 54-57.
CheckSignature ==
  /\ pc = "signature"
  /\ LET signature == Ed25519Signature_from_bytes(coseSign1.signature)
     IN  IF ~signature.ok
         THEN Raise("Error", "signature") /\ UNCHANGED sigCalls
         ELSE /\ outcome' = IF PublicKey_verify(publicKeyCose, signed_data(coseSign1),
                                                signature.val)
                            THEN "true" ELSE "false"
              /\ pc' = "done"
              /\ steps' = Append(steps, "signature")
              /\ sigCalls' = sigCalls + 1
  /\ UNCHANGED <<inputs, coseSign1, addressCose, publicKeyCose, addrResult>>

\* A call of verifyAddress alone, on any address of the codec.
InitAddr ==
  /\ \E a \in Addrs, d \in Damages : address = Damage(toHex(Address_to_bytes(a)), d)
  /\ addressCose \in Addrs
  /\ \E k \in Keys : publicKeyCose = <<k>>
  /\ addrResult = NoResult
  /\ pc = "call"
  /\ payload = <<>>
  /\ coseSign1Hex = <<>>
  /\ coseKeyHex = <<>>
  /\ coseSign1 = NullEnv
  /\ outcome = "none"
  /\ steps = <<>>
  /\ sigCalls = 0

\* Lines 65-121, called on their own.
CallVerifyAddress ==
  /\ pc = "call"
  /\ addrResult' = verifyAddress(address, addressCose, publicKeyCose)
  /\ pc' = "returned"
  /\ UNCHANGED <<inputs, coseSign1, addressCose, publicKeyCose, outcome, steps, sigCalls>>

Init == InitVerify \/ InitAddr

Next ==
  \/ DecodeEnvelope
  \/ CheckPayload
  \/ ReadAddressHeader
  \/ DecodeKey
  \/ CheckAddress
  \/ CheckSignature
  \/ CallVerifyAddress

Spec == Init /\ [][Next]_vars

\* ---------------------------------------------------------- properties
Ran(step) == \E i \in 1..Len(steps) : steps[i] = step

Order == <<"decode", "payload", "header", "key", "address", "signature">>

\* What the arguments decode to, recomputed from the argument texts.
ArgEnvelope == COSESign1_from_bytes(Buffer_from_hex(coseSign1Hex))

ArgKey == COSEKey_from_bytes(Buffer_from_hex(coseKeyHex))

ArgAddress == Address_from_bytes(Buffer_from_hex(address))

\* verifyAddress has been called and has ended.
AddressChecked == pc = "returned" \/ Ran("address")

\* C1: verifySignedMessage returns a boolean only when the payload check
\* and the address check have both passed, and the boolean is then the
\* result of the signature primitive on the envelope's signed bytes, its
\* signature and the public key of the key material.
C1_VerdictIsSignatureCheck ==
  outcome \in {"true", "false"} =>
    /\ ArgEnvelope.ok /\ ArgEnvelope.val.hasPayload
    /\ ArgEnvelope.val.payload = Buffer_from_hex(payload)
    /\ ArgEnvelope.val.hasAddress /\ ArgKey.ok /\ ArgKey.present
    /\ verifyAddress(address, Address_from_bytes(ArgEnvelope.val.addressBytes).val,
                     ArgKey.bytes).ret
    /\ addrResult.ret
    /\ sigCalls = 1
    /\ (outcome = "true") =
         PublicKey_verify(ArgKey.bytes, signed_data(ArgEnvelope.val),
                          ArgEnvelope.val.signature)

C1_Witness == outcome = "true" /\ sigCalls = 1 /\ addrResult.ret

\* C2: once the payload check has run on an envelope that embeds a payload,
\* it has passed exactly when the supplied payload bytes are identical to
\* the embedded ones; otherwise the call has ended with the payload-mismatch
\* error.
C2_PayloadExactness ==
  (Ran("payload") /\ coseSign1.hasPayload) =>
    IF coseSign1.payload = Buffer_from_hex(payload)
    THEN outcome # "Payload mismatch" /\ (Len(steps) = 2 => pc = "header")
    ELSE outcome = "Payload mismatch" /\ pc = "done" /\ Len(steps) = 2

\* Equal length, one byte apart; the strict prefix <<1>> of <<1, 2>> is met
\* on other runs.
C2_Witness ==
  /\ Ran("payload") /\ coseSign1.hasPayload
  /\ coseSign1.payload = <<1, 2>> /\ Buffer_from_hex(payload) = <<1, 3>>
  /\ outcome = "Payload mismatch"

\* C3: whenever one of the four arguments is not well-formed hex, the call
\* never returns a boolean verdict, and a supplied payload text that is not
\* well-formed hex does not pass the payload check.
C3_MalformedHexRaises ==
  /\ (\/ ~WellFormedHex(address) \/ ~WellFormedHex(payload)
      \/ ~WellFormedHex(coseSign1Hex) \/ ~WellFormedHex(coseKeyHex))
       => outcome \notin {"true", "false"}
  /\ (Ran("payload") /\ ~WellFormedHex(payload)) => (pc = "done" /\ Len(steps) = 2)

\* C4: when the claimed and the embedded address are the Base address built
\* from (N, key-hash hash(K), key-hash H), verifyAddress with K returns true.
C4_BaseRoundTrip ==
  (/\ AddressChecked
   /\ addressCose.kind = "base"
   /\ addressCose.payment = KeyCred(PublicKey_hash(publicKeyCose))
   /\ addressCose.stake.type = "key"
   /\ address = toHex(Address_to_bytes(addressCose)))
    => addrResult.ret /\ ~addrResult.raised

C4_Witness ==
  /\ pc = "returned" /\ addrResult.ret
  /\ addressCose.kind = "base" /\ addressCose.network = 1
  /\ addressCose.payment = KeyCred(PublicKey_hash(publicKeyCose))
  /\ addressCose.stake.type = "key"
  /\ addressCose.stake.hash # PublicKey_hash(publicKeyCose)
  /\ address = toHex(Address_to_bytes(addressCose))

\* C5: when the claimed and the embedded address are the Reward address
\* built from (N, key-hash hash(K)), verifyAddress with K returns true, by
\* way of the Reward path after the Base attempt has ended negatively.
C5_RewardRoundTrip ==
  (/\ AddressChecked
   /\ addressCose.kind = "reward"
   /\ addressCose.stake = KeyCred(PublicKey_hash(publicKeyCose))
   /\ address = toHex(Address_to_bytes(addressCose)))
    => addrResult.ret /\ ~addrResult.raised /\ addrResult.log = <<LogNotBase>>

C5_Witness ==
  /\ pc = "returned" /\ addrResult.ret
  /\ addressCose.kind = "reward" /\ addressCose.network = 1
  /\ addressCose.stake = KeyCred(PublicKey_hash(publicKeyCose))
  /\ address = toHex(Address_to_bytes(addressCose))

\* C6: in the Base scenario (payment credential a key-hash h, stake
\* credential a key-hash) and in the Reward scenario (stake credential a
\* key-hash h), verifyAddress with a public key whose hash differs from h
\* returns false.
C6_WrongKey ==
  (/\ AddressChecked
   /\ address = toHex(Address_to_bytes(addressCose))
   /\ \/ /\ addressCose.kind = "base"
         /\ addressCose.payment.type = "key" /\ addressCose.stake.type = "key"
         /\ addressCose.payment.hash # PublicKey_hash(publicKeyCose)
      \/ /\ addressCose.kind = "reward"
         /\ addressCose.stake.type = "key"
         /\ addressCose.stake.hash # PublicKey_hash(publicKeyCose))
    => ~addrResult.ret /\ ~addrResult.raised

\* The key is the one whose hash is the Base address's stake credential.
C6_Witness ==
  /\ pc = "returned" /\ ~addrResult.ret
  /\ address = toHex(Address_to_bytes(addressCose))
  /\ addressCose.kind = "base"
  /\ addressCose.payment.type = "key" /\ addressCose.stake.type = "key"
  /\ addressCose.payment.hash # PublicKey_hash(publicKeyCose)
  /\ addressCose.stake.hash = PublicKey_hash(publicKeyCose)

\* C7: whenever the claimed address decodes to an address whose bech32
\* string differs from the embedded address's, verifyAddress returns false,
\* and verifySignedMessage ends with the address-mismatch error without
\* calling the signature primitive.
C7_Divergence ==
  (/\ AddressChecked
   /\ ArgAddress.ok
   /\ to_bech32(ArgAddress.val) # to_bech32(addressCose))
    => /\ ~addrResult.ret /\ ~addrResult.raised
       /\ Ran("address") =>
            outcome = "Address mismatch" /\ pc = "done" /\ sigCalls = 0

\* The public key reconstructs the claimed address exactly.
C7_Witness ==
  /\ Ran("address") /\ ArgAddress.ok
  /\ to_bech32(ArgAddress.val) # to_bech32(addressCose)
  /\ ArgAddress.val.kind = "base" /\ addressCose.kind = "base"
  /\ ArgAddress.val.payment = KeyCred(PublicKey_hash(publicKeyCose))
  /\ ArgAddress.val.stake = addressCose.stake
  /\ outcome = "Address mismatch"

\* C8: verifyAddress never raises; when the claimed address does not decode
\* it returns false after logging, and verifySignedMessage then ends with
\* the address-mismatch error.
C8_NeverRaises ==
  AddressChecked =>
    /\ ~addrResult.raised
    /\ addrResult.ret \in BOOLEAN
    /\ ~ArgAddress.ok =>
         /\ ~addrResult.ret
         /\ addrResult.log = <<LogCouldNot>>
         /\ Ran("address") => outcome = "Address mismatch" /\ pc = "done"
    /\ (pc = "done" /\ Len(steps) = 5) => outcome = "Address mismatch"

C8_Witness ==
  /\ Ran("address") /\ ~ArgAddress.ok
  /\ outcome = "Address mismatch" /\ addrResult.log = <<LogCouldNot>>

\* C9: the steps of verifySignedMessage run in the order decode, payload,
\* header, key, address, signature, each at most once and none after a
\* failed one; when the envelope decodes with a payload that differs from
\* the supplied one the outcome is the payload-mismatch error whatever the
\* other arguments hold; the signature primitive is invoked at most once and
\* only after the payload check and the address check have passed.
C9_Linear ==
  /\ \E n \in 0..6 : steps = SubSeq(Order, 1, n)
  /\ outcome # "none" => pc = "done"
  /\ (pc = "done" /\ ArgEnvelope.ok /\ ArgEnvelope.val.hasPayload
        /\ ArgEnvelope.val.payload # Buffer_from_hex(payload))
       => outcome = "Payload mismatch" /\ steps = <<"decode", "payload">>
  /\ sigCalls <= 1
  /\ sigCalls = 1 =>
       /\ steps = Order
       /\ coseSign1.payload = Buffer_from_hex(payload)
       /\ addrResult.ret

C9_FailFast == []C9_Linear /\ [][pc # "done"]_vars

\* Payloads differ while the key material is malformed and the claimed
\* address does not decode.
C9_Witness ==
  /\ pc = "done" /\ outcome = "Payload mismatch"
  /\ ~(ArgKey.ok /\ ArgKey.present) /\ ~ArgAddress.ok
  /\ steps = <<"decode", "payload">>

\* C10: verifyAddress returns true only if the claimed address is a Base
\* address whose payment credential is the key-hash hash(publicKey) and whose
\* stake credential is a key-hash, or a Reward address whose stake
\* credential is the key-hash hash(publicKey).
C10_TrueOnlyIfDerived ==
  (AddressChecked /\ addrResult.ret) =>
    /\ ArgAddress.ok
    /\ \/ /\ ArgAddress.val.kind = "base"
          /\ ArgAddress.val.payment = KeyCred(PublicKey_hash(publicKeyCose))
          /\ ArgAddress.val.stake.type = "key"
       \/ /\ ArgAddress.val.kind = "reward"
          /\ ArgAddress.val.stake = KeyCred(PublicKey_hash(publicKeyCose))

\* A Base address with the right payment key-hash and a script stake
\* credential falls through to the Reward path and is refused.
C10_Witness ==
  /\ pc = "returned" /\ ~addrResult.ret /\ addrResult.log = <<LogNotBase>>
  /\ address = toHex(Address_to_bytes(addressCose))
  /\ addressCose.kind = "base"
  /\ addressCose.payment = KeyCred(PublicKey_hash(publicKeyCose))
  /\ addressCose.stake.type = "script"

====
